---- MODULE Spec2Model ----
(***************************************************************************)
(* The three analysis scripts of GHSL_OverTure (Solution1.py, test.py and  *)
(* RA_durham_compare.py) as one state machine.  A state is one run of one  *)
(* script's main(): the raster on disk, the footprint file on disk, the    *)
(* data frames main() holds, and the calls main() has made so far.         *)
(*                                                                         *)
(* Geometry is planar and integer valued.  Polygons are axis-aligned       *)
(* rectangles.  A raster pixel of the 30 arc-second raster is GridSize     *)
(* units wide, so a coordinate need not fall on a pixel edge.              *)
(***************************************************************************)
EXTENDS Integers, Sequences, FiniteSets, TLC

VARIABLES
    script,        \* which script's main() is running
    pc,            \* "run", "done" or "failed"
    err,           \* the exception that ended main(), "" when none
    calls,         \* the functions main() has called in this run, in order
    runs,          \* how many times the script has been started
    raster,        \* the GHSL raster file (read-only input)
    fileExists,    \* durham_buildings.geojson exists
    fileContent,   \* the footprint collection stored in that file
    toolCalls,     \* invocations of the overturemaps command-line tool
    overture_gdf,  \* main()'s footprint frame
    grid,          \* main()'s grid frame
    summary        \* RA_durham_compare's scalars

vars == <<script, pc, err, calls, runs, raster, fileExists, fileContent,
          toolCalls, overture_gdf, grid, summary>>

---------------------------------------------------------------------------
(* Bounds of the model and constants of the program *)

MaxWidth == 2        \* raster columns
MaxHeight == 2       \* raster rows
MaxFootprints == 2   \* footprints in the file
MaxRuns == 2         \* times a script is started

GridSize == 10       \* grid_size = 30 / 3600 degrees: 30 arc-seconds
NoData == -9999      \* nodata=-9999

\* The raster is the 30 arc-second GHSL product: its pixel is 30 arc-seconds.
Res == GridSize

Scripts == {"Solution1", "test", "RA_durham_compare"}

---------------------------------------------------------------------------
(* Numbers *)

Min2(a, b) == IF a <= b THEN a ELSE b
Max2(a, b) == IF a >= b THEN a ELSE b
Abs(a) == IF a >= 0 THEN a ELSE -a

\* math.floor(p / q) and math.ceil(p / q) for integers p, q with q # 0
FloorDiv(p, q) == IF q > 0 THEN p \div q ELSE (-p) \div (-q)
CeilDiv(p, q) == -FloorDiv(-p, q)

RECURSIVE SumSeq(_)
SumSeq(s) == IF s = <<>> THEN 0 ELSE Head(s) + SumSeq(Tail(s))

RECURSIVE SumSet(_, _)
\* the sum of f(x) over the finite set S, f a function
SumSet(S, f) ==
    IF S = {} THEN 0
    ELSE LET x == CHOOSE y \in S : TRUE IN f[x] + SumSet(S \ {x}, f)

RECURSIVE Flatten(_)
Flatten(ss) == IF ss = <<>> THEN <<>> ELSE Head(ss) \o Flatten(Tail(ss))

\* IEEE-754 doubles as the pipeline produces them: a finite value n/d, NaN,
\* +infinity or -infinity.
Fin(n) == [k |-> "fin", n |-> n, d |-> 1]
NaN == [k |-> "nan", n |-> 0, d |-> 1]
PosInf == [k |-> "inf", n |-> 0, d |-> 1]
NegInf == [k |-> "-inf", n |-> 0, d |-> 1]

IsFinite(x) == x.k = "fin"
FSign(x) == IF x.k = "inf" THEN 1
            ELSE IF x.k = "-inf" THEN -1
            ELSE IF x.n > 0 THEN 1 ELSE IF x.n < 0 THEN -1 ELSE 0
Signed(s) == IF s > 0 THEN PosInf ELSE IF s < 0 THEN NegInf ELSE NaN

\* x / y as numpy divides two float64 values (no exception, IEEE results)
FDiv(x, y) ==
    IF x.k = "nan" \/ y.k = "nan" THEN NaN
    ELSE IF ~IsFinite(x) THEN
        (IF ~IsFinite(y) THEN NaN
         ELSE Signed(FSign(x) * (IF y.n < 0 THEN -1 ELSE 1)))
    ELSE IF ~IsFinite(y) THEN Fin(0)
    ELSE IF y.n = 0 THEN Signed(FSign(x))
    ELSE [k |-> "fin",
          n |-> x.n * y.d * (IF y.n < 0 THEN -1 ELSE 1),
          d |-> x.d * Abs(y.n)]

\* x * m for a finite positive integer m
FMul(x, m) == IF IsFinite(x) THEN [x EXCEPT !.n = x.n * m] ELSE x

\* equality of two doubles as values (NaN equals nothing)
FEq(x, y) ==
    IF IsFinite(x) /\ IsFinite(y) THEN x.n * y.d = y.n * x.d
    ELSE x.k = y.k /\ x.k # "nan"

\* Series.replace([np.inf, -np.inf], np.nan) on one value
ReplaceInf(x) == IF x.k \in {"inf", "-inf"} THEN NaN ELSE x

\* Series.fillna(v) on one value
FillNa(x, v) == IF x.k = "nan" THEN Fin(v) ELSE x

---------------------------------------------------------------------------
(* Geometry *)

\* shapely.geometry.box(minx, miny, maxx, maxy): the rectangle with these
\* corners, whatever their order
box(minx, miny, maxx, maxy) ==
    [x0 |-> Min2(minx, maxx), y0 |-> Min2(miny, maxy),
     x1 |-> Max2(minx, maxx), y1 |-> Max2(miny, maxy)]

\* GeoSeries.area of one rectangle
Area(g) == (g.x1 - g.x0) * (g.y1 - g.y0)

\* predicate='intersects': the closed rectangles share at least one point
Intersects(g, h) ==
    g.x0 <= h.x1 /\ h.x0 <= g.x1 /\ g.y0 <= h.y1 /\ h.y0 <= g.y1

\* area of the part of g lying in h
AreaWithin(g, h) ==
    Max2(0, Min2(g.x1, h.x1) - Max2(g.x0, h.x0))
      * Max2(0, Min2(g.y1, h.y1) - Max2(g.y0, h.y0))

\* GeoDataFrame.total_bounds of a non-empty sequence of rows
RECURSIVE total_bounds(_)
total_bounds(rows) ==
    LET g == Head(rows).geometry IN
    IF Len(rows) = 1 THEN g
    ELSE LET b == total_bounds(Tail(rows)) IN
         [x0 |-> Min2(g.x0, b.x0), y0 |-> Min2(g.y0, b.y0),
          x1 |-> Max2(g.x1, b.x1), y1 |-> Max2(g.y1, b.y1)]

\* The projection between the two coordinate reference systems the GHSL
\* product ships in.  The same CRS leaves coordinates alone; geographic to
\* Mollweide changes every coordinate (here: a change of scale).
Project(g, from, to) ==
    IF from = to THEN g
    ELSE [x0 |-> 2 * g.x0, y0 |-> 2 * g.y0, x1 |-> 2 * g.x1, y1 |-> 2 * g.y1]

\* GeoDataFrame.to_crs(crs)
to_crs(gdf, crs) ==
    [crs |-> crs,
     rows |-> [i \in 1..Len(gdf.rows) |->
                 [gdf.rows[i] EXCEPT
                     !.geometry = Project(gdf.rows[i].geometry, gdf.crs, crs)]]]

---------------------------------------------------------------------------
(* Inputs: the raster file and the footprint file *)

CRSs == {"EPSG:4326", "ESRI:54009"}
FileCRS == "EPSG:4326"     \* GeoJSON written by the overturemaps tool

Pixels(W, H) == (0..(H - 1)) \X (0..(W - 1))

\* which pixels hold the no-data sentinel: none, exactly one, or all
NoDataChoices(W, H) ==
    {{}} \cup {{p} : p \in Pixels(W, H)} \cup {Pixels(W, H)}

\* A raster: W x H pixels, the affine transform (a, 0, 0, 0, e, f) that maps
\* (col, row) to (a * col, f + e * row), a CRS and the no-data pixels.
NorthUpRasters ==
    {[W |-> w, H |-> h, a |-> Res, e |-> -Res, f |-> h * Res,
      crs |-> c, nodata |-> nd] :
        w \in 1..MaxWidth, h \in 1..MaxHeight, c \in CRSs,
        nd \in UNION {NoDataChoices(w2, h2) :
                        w2 \in 1..MaxWidth, h2 \in 1..MaxHeight}}

\* rows counted upwards from y = 0 (e > 0), as a file without georeferencing
SouthUpRasters ==
    {[W |-> w, H |-> h, a |-> Res, e |-> Res, f |-> 0,
      crs |-> FileCRS, nodata |-> {}] :
        w \in 1..MaxWidth, h \in 1..MaxHeight}

\* a transform with pixel size 0
ZeroResRasters ==
    {[W |-> 1, H |-> 1, a |-> 0, e |-> 0, f |-> 0,
      crs |-> FileCRS, nodata |-> {}]}

\* no-data pixels are drawn for the geographic rasters only
RasterInputs ==
    {r \in NorthUpRasters :
        /\ r.nodata \in NoDataChoices(r.W, r.H)
        /\ r.crs # FileCRS => r.nodata = {}}
      \cup SouthUpRasters \cup ZeroResRasters

\* the value stored at (row, col): 10, 20, 30, ... in reading order, or the
\* sentinel
PixelValue(ras, r, c) ==
    IF <<r, c>> \in ras.nodata THEN NoData ELSE 10 * (r * ras.W + c + 1)

\* the area on the ground of pixel (row, col)
PixelBox(ras, r, c) ==
    box(ras.a * c, ras.f + ras.e * r, ras.a * (c + 1), ras.f + ras.e * (r + 1))

\* rasterio: dataset.bounds = (left, bottom, right, top) and dataset.res
RasterBounds(ras) ==
    [left |-> 0, bottom |-> ras.f + ras.e * ras.H,
     right |-> ras.a * ras.W, top |-> ras.f]
RasterRes(ras) == <<ras.a, -ras.e>>

\* footprints the file may hold: one straddling two pixels (60 units of
\* area in one, 40 in the other), one small inside a pixel, one on pixel
\* edges
FootprintShapes ==
    {[x0 |-> 4, y0 |-> 0, x1 |-> 14, y1 |-> 10],
     [x0 |-> 12, y0 |-> 12, x1 |-> 14, y1 |-> 14],
     [x0 |-> 10, y0 |-> 10, x1 |-> 20, y1 |-> 20]}

FileContents ==
    UNION {[1..n -> FootprintShapes] : n \in 0..MaxFootprints}

\* gpd.read_file: one row per feature, in file order
read_file(content) ==
    [crs |-> FileCRS,
     rows |-> [i \in 1..Len(content) |-> [geometry |-> content[i]]]]

NoFrame == [crs |-> "", rows |-> <<>>]

---------------------------------------------------------------------------
(* rasterstats.zonal_stats(..., stats=['sum'], all_touched=True,
   nodata=-9999) *)

\* the pixel window read for a geometry: from the floor of its upper-left
\* corner to the ceiling of its lower-right corner, in pixel units
ZonalWindow(ras, g) ==
    LET row_start == FloorDiv(g.y1 - ras.f, ras.e)
        col_start == FloorDiv(g.x0, ras.a)
        row_stop == CeilDiv(g.y0 - ras.f, ras.e)
        col_stop == CeilDiv(g.x1, ras.a)
    IN  (row_start..(row_stop - 1)) \X (col_start..(col_stop - 1))

\* the call raises: a pixel size of 0 cannot be divided by, and an empty
\* window cannot be rasterized
ZonalRaises(ras, g) ==
    ras.a = 0 \/ ras.e = 0 \/ ZonalWindow(ras, g) = {}

\* as ZonalPixels, without the no-data mask
ZonalPixelsUnmasked(ras, g) ==
    {p \in ZonalWindow(ras, g) :
        p[1] \in 0..(ras.H - 1) /\ p[2] \in 0..(ras.W - 1)}

\* the pixels that enter the sum: those of the window (every one of them is
\* touched by a rectangle), lying in the raster (the window is read
\* boundless, filled with the sentinel) and not holding the sentinel
ZonalPixels(ras, g) ==
    {p \in ZonalWindow(ras, g) :
        /\ p[1] \in 0..(ras.H - 1) /\ p[2] \in 0..(ras.W - 1)
        /\ PixelValue(ras, p[1], p[2]) # NoData}

\* one entry of the list zonal_stats returns: {'sum': None} or {'sum': v}
zonal_stat(ras, g) ==
    LET px == ZonalPixels(ras, g)
        val == [p \in px |-> PixelValue(ras, p[1], p[2])]
    IN  IF px = {} THEN [none |-> TRUE, sum |-> 0]
        ELSE [none |-> FALSE, sum |-> SumSet(px, val)]

zonal_stats(rows, ras) ==
    [i \in 1..Len(rows) |-> zonal_stat(ras, rows[i].geometry)]

zonal_stats_raises(rows, ras) ==
    \E i \in 1..Len(rows) : ZonalRaises(ras, rows[i].geometry)

\* [stat['sum'] if stat['sum'] is not None else 0 for stat in stats]
ghsl_sum_column(stats) ==
    [i \in 1..Len(stats) |-> IF stats[i].none THEN 0 ELSE stats[i].sum]

---------------------------------------------------------------------------
(* Grid generation *)

\* np.arange(start, stop, step) for step # 0
arange(start, stop, step) ==
    LET n == Max2(0, CeilDiv(stop - start, step))
    IN  [i \in 1..n |-> start + (i - 1) * step]

\* as grid_cells, with the loops exchanged: for y in y_coords for x in
\* x_coords
grid_cells_row_major(x_coords, y_coords, sx, sy) ==
    Flatten([j \in 1..Len(y_coords) |->
               [i \in 1..Len(x_coords) |->
                  [geometry |-> box(x_coords[i], y_coords[j],
                                    x_coords[i] + sx, y_coords[j] + sy)]]])

\* [box(x, y, x + sx, y + sy) for x in x_coords for y in y_coords]
grid_cells(x_coords, y_coords, sx, sy) ==
    Flatten([i \in 1..Len(x_coords) |->
               [j \in 1..Len(y_coords) |->
                  [geometry |-> box(x_coords[i], y_coords[j],
                                    x_coords[i] + sx, y_coords[j] + sy)]]])

\* test.py: the grid of the raster's own extent and resolution
get_ghsl_grid(ras) ==
    LET b == RasterBounds(ras)
        res_x == RasterRes(ras)[1]
        res_y == RasterRes(ras)[2]
    IN  grid_cells(arange(b.left, b.right, res_x),
                   arange(b.bottom, b.top, res_y), res_x, res_y)

\* Solution1.py: the 30 arc-second grid over the footprints' bounds
create_grid(gdf) ==
    LET b == total_bounds(gdf.rows)
    IN  grid_cells(arange(b.x0, b.x1, GridSize),
                   arange(b.y0, b.y1, GridSize), GridSize, GridSize)

---------------------------------------------------------------------------
(* Footprint area per grid cell: calculate_overture_area_in_grid (Solution1)
   and compare_with_overture (test), the same code under two names *)

RECURSIVE Ascending(_)
\* the integers of the finite set S in ascending order
Ascending(S) ==
    IF S = {} THEN <<>>
    ELSE LET m == CHOOSE x \in S : \A y \in S : x <= y
         IN  <<m>> \o Ascending(S \ {m})

\* overture_gdf['building_area'] = overture_gdf.geometry.area
with_building_area(rows) ==
    [i \in 1..Len(rows) |->
        [geometry |-> rows[i].geometry,
         building_area |-> Area(rows[i].geometry)]]

\* gpd.sjoin(overture_gdf, grid, how='inner', predicate='intersects'): one
\* row per (footprint, cell) pair whose geometries intersect; index_right is
\* the cell's position in the grid
sjoin(left, right) ==
    Flatten([i \in 1..Len(left) |->
        LET js == Ascending({j \in 1..Len(right) :
                        Intersects(left[i].geometry, right[j].geometry)})
        IN  [t \in 1..Len(js) |->
               [index_left |-> i, index_right |-> js[t],
                building_area |-> left[i].building_area]]])

\* .groupby('index_right')['building_area'].sum().reset_index(): one row per
\* distinct key, keys ascending
groupby_sum(joined, ncells) ==
    LET keys == Ascending({k \in 1..ncells :
                      \E t \in 1..Len(joined) : joined[t].index_right = k})
        total(k) ==
            SumSeq([t \in 1..Len(joined) |->
                      IF joined[t].index_right = k
                      THEN joined[t].building_area ELSE 0])
    IN  [t \in 1..Len(keys) |->
           [index_right |-> keys[t], building_area |-> total(keys[t])]]

\* grid.merge(right, left_index=True, right_on='index_right', how='left'):
\* every grid row in order, once per right row with its index as key, and
\* once with building_area missing (NaN) when no right row has that key
merge_left(rows, right) ==
    Flatten([i \in 1..Len(rows) |->
        LET ms == Ascending({t \in 1..Len(right) : right[t].index_right = i})
        IN  IF ms = <<>>
            THEN << [geometry |-> rows[i].geometry,
                     ghsl_sum |-> rows[i].ghsl_sum,
                     index_right |-> i, building_area |-> NaN] >>
            ELSE [t \in 1..Len(ms) |->
                    [geometry |-> rows[i].geometry,
                     ghsl_sum |-> rows[i].ghsl_sum,
                     index_right |-> i,
                     building_area |-> Fin(right[ms[t]].building_area)]]])

\* grid['area'] = grid['building_area'].fillna(0)
with_area(rows) ==
    [i \in 1..Len(rows) |->
        [geometry |-> rows[i].geometry, ghsl_sum |-> rows[i].ghsl_sum,
         index_right |-> rows[i].index_right,
         building_area |-> rows[i].building_area,
         area |-> FillNa(rows[i].building_area, 0)]]

\* as overture_area_in_grid, merging the joined pairs without grouping them
overture_area_in_grid_ungrouped(footprints, rows) ==
    with_area(merge_left(rows, sjoin(footprints, rows)))

\* the grid the function returns, from the footprint rows (building_area
\* set) and the grid rows
overture_area_in_grid(footprints, rows) ==
    with_area(merge_left(rows, groupby_sum(sjoin(footprints, rows), Len(rows))))

---------------------------------------------------------------------------
(* Precision ratio *)

\* as precision_ratio, without the replacement of the infinities
precision_ratio_without_replace(ghsl_sum, area) ==
    FillNa(FMul(FDiv(Fin(ghsl_sum), area), 100), 0)

\* (ghsl_sum / area) * 100, then .replace([np.inf, -np.inf], np.nan)
\* .fillna(0), for one row
precision_ratio(ghsl_sum, area) ==
    FillNa(ReplaceInf(FMul(FDiv(Fin(ghsl_sum), area), 100)), 0)

calculate_precision_ratio(rows) ==
    [i \in 1..Len(rows) |->
        [geometry |-> rows[i].geometry, ghsl_sum |-> rows[i].ghsl_sum,
         index_right |-> rows[i].index_right,
         building_area |-> rows[i].building_area,
         area |-> rows[i].area,
         precision_ratio |-> precision_ratio(rows[i].ghsl_sum, rows[i].area)]]

\* RA_durham_compare: (total_ghsl_area / total_overture_area) * 100 on two
\* numpy scalars, reported as computed
whole_region_ratio(total_ghsl_area, total_overture_area) ==
    FMul(FDiv(Fin(total_ghsl_area), Fin(total_overture_area)), 100)

---------------------------------------------------------------------------
(* The three main() functions: the calls each makes, in order *)

Main(s) ==
    IF s = "Solution1" THEN
        <<"download_overture_data", "load_ghsl_raster",
          "load_overture_geojson", "reproject_overture_to_raster",
          "create_grid", "calculate_zonal_statistics",
          "calculate_overture_area_in_grid", "calculate_precision_ratio",
          "visualize_grid">>
    ELSE IF s = "test" THEN
        <<"get_ghsl_grid", "calculate_zonal_statistics", "read_file",
          "compare_with_overture", "calculate_precision_ratio",
          "visualize_grid">>
    ELSE
        <<"download_overture_data", "load_ghsl_raster",
          "load_overture_geojson", "reproject_overture_to_raster",
          "calculate_zonal_statistics", "compare_area_with_precision",
          "plot_precision_map">>

NoSummary ==
    [total_ghsl_area |-> 0, total_overture_area |-> 0, precision_ratio |-> NaN]

\* main() of script s is about to call f
Enter(s, f) ==
    /\ script = s
    /\ pc = "run"
    /\ Main(s)[Len(calls) + 1] = f

\* f returns: main() goes on to its next call, or ends
Return(f) ==
    /\ calls' = Append(calls, f)
    /\ pc' = IF Len(calls) + 1 = Len(Main(script)) THEN "done" ELSE "run"
    /\ err' = err

\* f raises e: main() ends with the exception
Raise(f, e) ==
    /\ calls' = Append(calls, f)
    /\ pc' = "failed"
    /\ err' = e

\* subprocess.run(["overturemaps", "download", ..., "-o", output_file]): the
\* tool writes the file, or fails and leaves the disk as it was; its exit
\* status is not looked at
RunTool ==
    /\ toolCalls' = toolCalls + 1
    /\ \/ /\ fileExists' = TRUE
          /\ fileContent' \in FileContents
       \/ UNCHANGED <<fileExists, fileContent>>

Init ==
    /\ script \in Scripts
    /\ pc = "run"
    /\ err = ""
    /\ calls = <<>>
    /\ runs = 1
    /\ raster \in RasterInputs
    /\ fileExists \in BOOLEAN
    /\ fileContent \in (IF fileExists THEN FileContents ELSE {<<>>})
    /\ toolCalls = 0
    /\ overture_gdf = NoFrame
    /\ grid = <<>>
    /\ summary = NoSummary

---------------------------------------------------------------------------
(* Solution1.py *)

S1_download_overture_data ==
    /\ Enter("Solution1", "download_overture_data")
    /\ IF fileExists
       THEN UNCHANGED <<fileExists, fileContent, toolCalls>>
       ELSE RunTool
    /\ Return("download_overture_data")
    /\ UNCHANGED <<script, runs, raster, overture_gdf, grid, summary>>

S1_load_ghsl_raster ==
    /\ Enter("Solution1", "load_ghsl_raster")
    /\ Return("load_ghsl_raster")
    /\ UNCHANGED <<script, runs, raster, fileExists, fileContent, toolCalls,
                   overture_gdf, grid, summary>>

S1_load_overture_geojson ==
    /\ Enter("Solution1", "load_overture_geojson")
    /\ IF fileExists
       THEN /\ overture_gdf' = read_file(fileContent)
            /\ Return("load_overture_geojson")
       ELSE /\ Raise("load_overture_geojson", "DataSourceError")
            /\ UNCHANGED overture_gdf
    /\ UNCHANGED <<script, runs, raster, fileExists, fileContent, toolCalls,
                   grid, summary>>

S1_reproject_overture_to_raster ==
    /\ Enter("Solution1", "reproject_overture_to_raster")
    /\ overture_gdf' = to_crs(overture_gdf, raster.crs)
    /\ Return("reproject_overture_to_raster")
    /\ UNCHANGED <<script, runs, raster, fileExists, fileContent, toolCalls,
                   grid, summary>>

S1_create_grid ==
    /\ Enter("Solution1", "create_grid")
    /\ IF overture_gdf.rows = <<>>
       THEN \* total_bounds of an empty frame is NaN: np.arange raises
            /\ Raise("create_grid", "ValueError")
            /\ UNCHANGED grid
       ELSE /\ grid' = create_grid(overture_gdf)
            /\ Return("create_grid")
    /\ UNCHANGED <<script, runs, raster, fileExists, fileContent, toolCalls,
                   overture_gdf, summary>>

\* the exception zonal_stats ends with when it raises
ZonalError(ras) ==
    IF ras.a = 0 \/ ras.e = 0 THEN "ZeroDivisionError" ELSE "ValueError"

\* calculate_zonal_statistics(grid, ghsl_raster_path) of Solution1.py and
\* test.py: the grid with its ghsl_sum column
grid_zonal_statistics(rows, ras) ==
    LET col == ghsl_sum_column(zonal_stats(rows, ras))
    IN  [i \in 1..Len(rows) |->
            [geometry |-> rows[i].geometry, ghsl_sum |-> col[i]]]

S1_calculate_zonal_statistics ==
    /\ Enter("Solution1", "calculate_zonal_statistics")
    /\ IF zonal_stats_raises(grid, raster)
       THEN /\ Raise("calculate_zonal_statistics", ZonalError(raster))
            /\ UNCHANGED grid
       ELSE /\ grid' = grid_zonal_statistics(grid, raster)
            /\ Return("calculate_zonal_statistics")
    /\ UNCHANGED <<script, runs, raster, fileExists, fileContent, toolCalls,
                   overture_gdf, summary>>

S1_calculate_overture_area_in_grid ==
    /\ Enter("Solution1", "calculate_overture_area_in_grid")
    /\ overture_gdf' =
         [overture_gdf EXCEPT !.rows = with_building_area(overture_gdf.rows)]
    /\ grid' = overture_area_in_grid(overture_gdf'.rows, grid)
    /\ Return("calculate_overture_area_in_grid")
    /\ UNCHANGED <<script, runs, raster, fileExists, fileContent, toolCalls,
                   summary>>

S1_calculate_precision_ratio ==
    /\ Enter("Solution1", "calculate_precision_ratio")
    /\ grid' = calculate_precision_ratio(grid)
    /\ Return("calculate_precision_ratio")
    /\ UNCHANGED <<script, runs, raster, fileExists, fileContent, toolCalls,
                   overture_gdf, summary>>

S1_visualize_grid ==
    /\ Enter("Solution1", "visualize_grid")
    /\ Return("visualize_grid")
    /\ UNCHANGED <<script, runs, raster, fileExists, fileContent, toolCalls,
                   overture_gdf, grid, summary>>

---------------------------------------------------------------------------
(* test.py *)

T_get_ghsl_grid ==
    /\ Enter("test", "get_ghsl_grid")
    /\ IF RasterRes(raster)[1] = 0 \/ RasterRes(raster)[2] = 0
       THEN \* np.arange with step 0 raises; which error depends on numpy
            /\ \E e \in {"ZeroDivisionError", "ValueError"} :
                  Raise("get_ghsl_grid", e)
            /\ UNCHANGED grid
       ELSE /\ grid' = get_ghsl_grid(raster)
            /\ Return("get_ghsl_grid")
    /\ UNCHANGED <<script, runs, raster, fileExists, fileContent, toolCalls,
                   overture_gdf, summary>>

T_calculate_zonal_statistics ==
    /\ Enter("test", "calculate_zonal_statistics")
    /\ IF zonal_stats_raises(grid, raster)
       THEN /\ Raise("calculate_zonal_statistics", ZonalError(raster))
            /\ UNCHANGED grid
       ELSE /\ grid' = grid_zonal_statistics(grid, raster)
            /\ Return("calculate_zonal_statistics")
    /\ UNCHANGED <<script, runs, raster, fileExists, fileContent, toolCalls,
                   overture_gdf, summary>>

T_read_file ==
    /\ Enter("test", "read_file")
    /\ IF fileExists
       THEN /\ overture_gdf' = read_file(fileContent)
            /\ Return("read_file")
       ELSE /\ Raise("read_file", "DataSourceError")
            /\ UNCHANGED overture_gdf
    /\ UNCHANGED <<script, runs, raster, fileExists, fileContent, toolCalls,
                   grid, summary>>

T_compare_with_overture ==
    /\ Enter("test", "compare_with_overture")
    /\ overture_gdf' =
         [overture_gdf EXCEPT !.rows = with_building_area(overture_gdf.rows)]
    /\ grid' = overture_area_in_grid(overture_gdf'.rows, grid)
    /\ Return("compare_with_overture")
    /\ UNCHANGED <<script, runs, raster, fileExists, fileContent, toolCalls,
                   summary>>

T_calculate_precision_ratio ==
    /\ Enter("test", "calculate_precision_ratio")
    /\ grid' = calculate_precision_ratio(grid)
    /\ Return("calculate_precision_ratio")
    /\ UNCHANGED <<script, runs, raster, fileExists, fileContent, toolCalls,
                   overture_gdf, summary>>

T_visualize_grid ==
    /\ Enter("test", "visualize_grid")
    /\ Return("visualize_grid")
    /\ UNCHANGED <<script, runs, raster, fileExists, fileContent, toolCalls,
                   overture_gdf, grid, summary>>

---------------------------------------------------------------------------
(* RA_durham_compare.py *)

RA_download_overture_data ==
    /\ Enter("RA_durham_compare", "download_overture_data")
    /\ RunTool
    /\ Return("download_overture_data")
    /\ UNCHANGED <<script, runs, raster, overture_gdf, grid, summary>>

RA_load_ghsl_raster ==
    /\ Enter("RA_durham_compare", "load_ghsl_raster")
    /\ Return("load_ghsl_raster")
    /\ UNCHANGED <<script, runs, raster, fileExists, fileContent, toolCalls,
                   overture_gdf, grid, summary>>

RA_load_overture_geojson ==
    /\ Enter("RA_durham_compare", "load_overture_geojson")
    /\ IF fileExists
       THEN /\ overture_gdf' = read_file(fileContent)
            /\ Return("load_overture_geojson")
       ELSE /\ Raise("load_overture_geojson", "DataSourceError")
            /\ UNCHANGED overture_gdf
    /\ UNCHANGED <<script, runs, raster, fileExists, fileContent, toolCalls,
                   grid, summary>>

RA_reproject_overture_to_raster ==
    /\ Enter("RA_durham_compare", "reproject_overture_to_raster")
    /\ overture_gdf' = to_crs(overture_gdf, raster.crs)
    /\ Return("reproject_overture_to_raster")
    /\ UNCHANGED <<script, runs, raster, fileExists, fileContent, toolCalls,
                   grid, summary>>

\* zonal statistics per footprint, and their total
RA_calculate_zonal_statistics ==
    /\ Enter("RA_durham_compare", "calculate_zonal_statistics")
    /\ IF zonal_stats_raises(overture_gdf.rows, raster)
       THEN /\ Raise("calculate_zonal_statistics", ZonalError(raster))
            /\ UNCHANGED <<overture_gdf, summary>>
       ELSE /\ overture_gdf' =
                 [overture_gdf EXCEPT
                    !.rows = grid_zonal_statistics(overture_gdf.rows, raster)]
            /\ summary' =
                 [summary EXCEPT
                    !.total_ghsl_area =
                       SumSeq([i \in 1..Len(overture_gdf'.rows) |->
                                 overture_gdf'.rows[i].ghsl_sum])]
            /\ Return("calculate_zonal_statistics")
    /\ UNCHANGED <<script, runs, raster, fileExists, fileContent, toolCalls,
                   grid>>

RA_compare_area_with_precision ==
    /\ Enter("RA_durham_compare", "compare_area_with_precision")
    /\ overture_gdf' =
         [overture_gdf EXCEPT
            !.rows = [i \in 1..Len(overture_gdf.rows) |->
                        [geometry |-> overture_gdf.rows[i].geometry,
                         ghsl_sum |-> overture_gdf.rows[i].ghsl_sum,
                         area |-> Area(overture_gdf.rows[i].geometry)]]]
    /\ LET total_overture_area ==
               SumSeq([i \in 1..Len(overture_gdf'.rows) |->
                         overture_gdf'.rows[i].area])
       IN  summary' =
             [summary EXCEPT
                !.total_overture_area = total_overture_area,
                !.precision_ratio =
                    whole_region_ratio(summary.total_ghsl_area,
                                       total_overture_area)]
    /\ Return("compare_area_with_precision")
    /\ UNCHANGED <<script, runs, raster, fileExists, fileContent, toolCalls,
                   grid>>

RA_plot_precision_map ==
    /\ Enter("RA_durham_compare", "plot_precision_map")
    /\ Return("plot_precision_map")
    /\ UNCHANGED <<script, runs, raster, fileExists, fileContent, toolCalls,
                   overture_gdf, grid, summary>>

---------------------------------------------------------------------------
(* The script is started again: a new process, the same disk *)

Rerun ==
    /\ pc \in {"done", "failed"}
    /\ runs < MaxRuns
    /\ runs' = runs + 1
    /\ pc' = "run"
    /\ err' = ""
    /\ calls' = <<>>
    /\ overture_gdf' = NoFrame
    /\ grid' = <<>>
    /\ summary' = NoSummary
    /\ UNCHANGED <<script, raster, fileExists, fileContent, toolCalls>>

Next ==
    \/ S1_download_overture_data
    \/ S1_load_ghsl_raster
    \/ S1_load_overture_geojson
    \/ S1_reproject_overture_to_raster
    \/ S1_create_grid
    \/ S1_calculate_zonal_statistics
    \/ S1_calculate_overture_area_in_grid
    \/ S1_calculate_precision_ratio
    \/ S1_visualize_grid
    \/ T_get_ghsl_grid
    \/ T_calculate_zonal_statistics
    \/ T_read_file
    \/ T_compare_with_overture
    \/ T_calculate_precision_ratio
    \/ T_visualize_grid
    \/ RA_download_overture_data
    \/ RA_load_ghsl_raster
    \/ RA_load_overture_geojson
    \/ RA_reproject_overture_to_raster
    \/ RA_calculate_zonal_statistics
    \/ RA_compare_area_with_precision
    \/ RA_plot_precision_map
    \/ Rerun

Spec == Init /\ [][Next]_vars

---------------------------------------------------------------------------
(* Properties *)

\* main() called f in this run and f returned
Returned(f) ==
    \E i \in 1..Len(calls) :
        calls[i] = f /\ (i < Len(calls) \/ pc # "failed")

GridScripts == {"Solution1", "test"}
AreaFunctions == {"calculate_overture_area_in_grid", "compare_with_overture"}
AreaReturned == \E f \in AreaFunctions : Returned(f)

\* C1: after calculate_precision_ratio no cell carries NaN or an infinity as
\* its precision_ratio, and every cell whose vector area is 0 has
\* precision_ratio exactly 0, whatever its ghsl_sum.
C1_ZeroAreaRatioIsZero ==
    (script \in GridScripts /\ Returned("calculate_precision_ratio")) =>
        \A i \in 1..Len(grid) :
            /\ IsFinite(grid[i].precision_ratio)
            /\ FEq(grid[i].area, Fin(0)) => grid[i].precision_ratio = Fin(0)

\* a grid with a zero-area cell whose raster sum is positive (the division
\* gave +infinity) and a zero-area cell whose raster sum is 0 (it gave NaN)
C1_Witness ==
    /\ script \in GridScripts
    /\ Returned("calculate_precision_ratio")
    /\ \E i \in 1..Len(grid) :
          FEq(grid[i].area, Fin(0)) /\ grid[i].ghsl_sum > 0
    /\ \E i \in 1..Len(grid) :
          FEq(grid[i].area, Fin(0)) /\ grid[i].ghsl_sum = 0

\* the footprint area lying in cell g
AreaInCell(footprints, g) ==
    SumSeq([t \in 1..Len(footprints) |->
              AreaWithin(footprints[t].geometry, g)])

\* C2: after the per-cell area aggregation each cell's vector area is the
\* sum, over the footprints, of the part of the footprint's area lying in
\* the cell (a footprint with 60 units in one cell and 40 in the next gives
\* 60 and 40, not 100 and 100).
C2_CellAreaIsAreaInCell ==
    (script \in GridScripts /\ AreaReturned) =>
        \A i \in 1..Len(grid) :
            FEq(grid[i].area,
                Fin(AreaInCell(overture_gdf.rows, grid[i].geometry)))

\* the polygons calculate_zonal_statistics was given, with their ghsl_sum
ZonalRows == IF script = "RA_durham_compare" THEN overture_gdf.rows ELSE grid

\* raster pixels sharing at least a point with g (boundary contact counts)
PixelsTouching(ras, g) ==
    {p \in Pixels(ras.W, ras.H) : Intersects(PixelBox(ras, p[1], p[2]), g)}

\* raster pixels sharing some area with g
PixelsOverlapping(ras, g) ==
    {p \in Pixels(ras.W, ras.H) :
        AreaWithin(PixelBox(ras, p[1], p[2]), g) > 0}

ValidSum(ras, px) ==
    LET valid == {p \in px : PixelValue(ras, p[1], p[2]) # NoData}
    IN  SumSet(valid, [p \in valid |-> PixelValue(ras, p[1], p[2])])

ScenarioRaster ==
    /\ raster.W = 2 /\ raster.H = 2 /\ raster.nodata = {}
    /\ raster.a = Res /\ raster.e = -Res
    /\ <<PixelValue(raster, 0, 0), PixelValue(raster, 0, 1),
         PixelValue(raster, 1, 0), PixelValue(raster, 1, 1)>>
         = <<10, 20, 30, 40>>

GhslSums == [i \in 1..Len(grid) |-> grid[i].ghsl_sum]

RasterGridAggregated ==
    /\ script = "test"
    /\ Returned("get_ghsl_grid")
    /\ Returned("calculate_zonal_statistics")

\* C4 as stated: on the scenario raster the result of grid generation and
\* aggregation is [10, 20, 30, 40].
C4_ScenarioRowMajor ==
    (RasterGridAggregated /\ ScenarioRaster) => GhslSums = <<10, 20, 30, 40>>

\* C4 as amended: the grid of a raster's own extent and resolution has one
\* cell per pixel; the cell of the pixel in column c and row r (rows counted
\* from the top) is listed at position c * H + (H - 1 - r), that is column by
\* column from the left and, within a column, from the bottom up; its result
\* is that pixel's value (0 for a no-data pixel).  On the scenario raster the
\* result is [30, 10, 40, 20].
C4_CellIsItsPixelColumnMajor ==
    RasterGridAggregated =>
        /\ Len(grid) = raster.W * raster.H
        /\ \A p \in Pixels(raster.W, raster.H) :
              LET k == p[2] * raster.H + (raster.H - 1 - p[1]) + 1
                  v == PixelValue(raster, p[1], p[2])
              IN  /\ grid[k].geometry = PixelBox(raster, p[1], p[2])
                  /\ grid[k].ghsl_sum = IF v = NoData THEN 0 ELSE v
        /\ ScenarioRaster => GhslSums = <<30, 10, 40, 20>>

C4_Witness == RasterGridAggregated /\ ScenarioRaster

\* g lies inside the box (minx, miny)-(maxx, maxy)
Inside(g, minx, miny, maxx, maxy) ==
    minx <= g.x0 /\ g.x1 <= maxx /\ miny <= g.y0 /\ g.y1 <= maxy

\* C5: every cell the grid generators produce lies inside the bounding box
\* the grid was generated for (the footprints' bounds in create_grid, the
\* raster's bounds in get_ghsl_grid).
C5_CellsInsideBoundingBox ==
    /\ (script = "Solution1" /\ Returned("create_grid")) =>
          LET b == total_bounds(overture_gdf.rows)
          IN  \A i \in 1..Len(grid) :
                 Inside(grid[i].geometry, b.x0, b.y0, b.x1, b.y1)
    /\ (script = "test" /\ Returned("get_ghsl_grid")) =>
          LET b == RasterBounds(raster)
          IN  \A i \in 1..Len(grid) :
                 Inside(grid[i].geometry, Min2(b.left, b.right),
                        Min2(b.bottom, b.top), Max2(b.left, b.right),
                        Max2(b.bottom, b.top))

\* the calls of main() that combine the footprints with the raster or with
\* a grid aligned to it
CrossDatasetCalls(s) ==
    IF s = "Solution1"
    THEN {"calculate_zonal_statistics", "calculate_overture_area_in_grid"}
    ELSE IF s = "test" THEN {"compare_with_overture"}
    ELSE {"calculate_zonal_statistics"}

\* C6: in every run, a call that combines the footprints with the raster or
\* the raster-aligned grid comes after a call of
\* reproject_overture_to_raster.
C6_ReprojectedBeforeCrossDataset ==
    \A i \in 1..Len(calls) :
        calls[i] \in CrossDatasetCalls(script) =>
            \E j \in 1..(i - 1) : calls[j] = "reproject_overture_to_raster"

\* C7: grid generation from a raster whose resolution is not strictly
\* positive on both axes ends with InvalidParameter and returns no grid.
C7_NonPositiveCellSizeRejected ==
    (/\ script = "test"
     /\ Len(calls) >= 1
     /\ (RasterRes(raster)[1] <= 0 \/ RasterRes(raster)[2] <= 0)) =>
        /\ calls = <<"get_ghsl_grid">>
        /\ pc = "failed"
        /\ err = "InvalidParameter"
        /\ grid = <<>>

\* C8: once the output file exists, no step invokes the acquisition tool or
\* changes the file.
C8_NoFetchOnceFileExists ==
    [][fileExists =>
          /\ toolCalls' = toolCalls
          /\ fileExists'
          /\ fileContent' = fileContent]_vars

\* the grid-mode steps on a grid of one cell covering the whole extent (the
\* raster's bounds and the footprints' bounds)
OneCellGrid ==
    LET b == RasterBounds(raster)
        r == [geometry |-> box(b.left, b.bottom, b.right, b.top)]
        all == IF overture_gdf.rows = <<>> THEN r.geometry
               ELSE total_bounds(<<r>> \o overture_gdf.rows)
    IN  << [geometry |-> all] >>

OneCellResult ==
    calculate_precision_ratio(
        overture_area_in_grid(with_building_area(overture_gdf.rows),
                              grid_zonal_statistics(OneCellGrid, raster)))[1]

\* C9: the whole-region run reports the raster sum, the vector area and the
\* ratio the grid-mode steps give on a one-cell grid over the full extent
\* (wherever those steps give a result); the ratio is 0 when the total
\* footprint area is 0.
C9_WholeRegionIsOneCellGrid ==
    (/\ script = "RA_durham_compare"
      /\ Returned("compare_area_with_precision")
      /\ ~zonal_stats_raises(OneCellGrid, raster))
      =>
        /\ summary.total_ghsl_area = OneCellResult.ghsl_sum
        /\ FEq(Fin(summary.total_overture_area), OneCellResult.area)
        /\ FEq(summary.precision_ratio, OneCellResult.precision_ratio)

\* the summed area of the footprints intersecting cell g
AreaOfIntersecting(footprints, g) ==
    SumSeq([t \in 1..Len(footprints) |->
              IF Intersects(footprints[t].geometry, g)
              THEN Area(footprints[t].geometry) ELSE 0])

\* C10: the per-cell area aggregation returns one row per cell of the grid
\* it was given, in the same order, with geometry and ghsl_sum unchanged,
\* and the area on row i is the summed area of the footprints intersecting
\* cell i (0 when there is none).
C10_AggregationKeepsRows ==
    [][(\E f \in AreaFunctions : calls' = Append(calls, f)) =>
          /\ Len(grid') = Len(grid)
          /\ \A i \in 1..Len(grid) :
                /\ grid'[i].geometry = grid[i].geometry
                /\ grid'[i].ghsl_sum = grid[i].ghsl_sum
                /\ grid'[i].index_right = i
                /\ grid'[i].area =
                     Fin(AreaOfIntersecting(overture_gdf.rows,
                                            grid[i].geometry))]_vars

\* a grid with a cell intersected by two footprints and a cell intersected
\* by none
C10_Witness ==
    /\ script \in GridScripts
    /\ AreaReturned
    /\ \E i \in 1..Len(grid) :
          Cardinality({t \in 1..Len(overture_gdf.rows) :
              Intersects(overture_gdf.rows[t].geometry, grid[i].geometry)})
            >= 2
    /\ \E i \in 1..Len(grid) :
          /\ grid[i].area = Fin(0)
          /\ \A t \in 1..Len(overture_gdf.rows) :
                ~Intersects(overture_gdf.rows[t].geometry, grid[i].geometry)

====
